---- MODULE Spec2Model ----
(***************************************************************************)
(* The todo application of lab-3-contextapi: the Todo Store (reducer,      *)
(* action functions, load and save effects of TodoProvider), the Theme     *)
(* Store, the Filter Store, the accessors of the three contexts and the    *)
(* views TodoList derives, as mounted by main under StrictMode, over a     *)
(* string-valued persistence medium.                                       *)
(***************************************************************************)
EXTENDS Integers, Sequences, FiniteSets

(***************************************************************************)
(* Bounds of the model.                                                    *)
(***************************************************************************)
\* The longest collection an add may extend.
MaxTodos == 3
\* The last tick Date.now() reaches.
MaxClock == 2
\* The longest array the persistence medium holds when a session starts.
MaxStored == 2
\* The most toggles of the theme in one session.
MaxToggles == 3
\* The most sessions (page loads) over one persistence medium.
MaxSessions == 2
\* The longest collection in the sessions in which the three stores act.
MaxAppTodos == 1

(***************************************************************************)
(* Strings are sequences of one-character strings.                         *)
(***************************************************************************)
Digit == <<"0", "1", "2", "3", "4", "5", "6", "7", "8", "9">>

RECURSIVE ToString(_)
\* Number.prototype.toString, for the non-negative integers Date.now() gives.
ToString(n) ==
    IF n < 10 THEN <<Digit[n + 1]>>
    ELSE ToString(n \div 10) \o <<Digit[(n % 10) + 1]>>

RECURSIVE TrimStart(_)
TrimStart(s) ==
    IF s = <<>> THEN s
    ELSE IF Head(s) = " " THEN TrimStart(Tail(s)) ELSE s

RECURSIVE TrimEnd(_)
TrimEnd(s) ==
    IF s = <<>> THEN s
    ELSE IF s[Len(s)] = " " THEN TrimEnd(SubSeq(s, 1, Len(s) - 1)) ELSE s

\* String.prototype.trim: leading and trailing white space removed.
Trim(s) == TrimEnd(TrimStart(s))

\* A text that is empty or holds white space only.
IsBlank(t) == \A i \in 1..Len(t) : t[i] = " "

(***************************************************************************)
(* JavaScript values.  A property of an item holds a string, a boolean or  *)
(* undefined; the reducer's state holds whatever JSON.parse returned.      *)
(***************************************************************************)
JsString(s) == [type |-> "string", str |-> s, bool |-> FALSE]
JsBoolean(b) == [type |-> "boolean", str |-> <<>>, bool |-> b]
JsUndefined == [type |-> "undefined", str |-> <<>>, bool |-> FALSE]

\* ToBoolean, as `if (x)` and `!x` apply it.
Truthy(v) ==
    CASE v.type = "boolean" -> v.bool
      [] v.type = "string" -> v.str # <<>>
      [] OTHER -> FALSE

JsArray(es) == [type |-> "array", elems |-> es]
JsNull == [type |-> "null", elems |-> <<>>]
JsNumber == [type |-> "number", elems |-> <<>>]

\* The properties of an item the program reads.
Keys == {"id", "text", "completed"}

\* interface Todo { id: string; text: string; completed: boolean }
\* An object is its properties and the order they were created in (`order`),
\* the order JSON.stringify writes them in.  The object the reducer builds
\* has id, then text, then completed.
Todo(id, text, completed) ==
    [id |-> JsString(id), text |-> JsString(text), completed |-> JsBoolean(completed),
     order |-> <<"id", "text", "completed">>]

\* { ...todo, [k]: v }: the copy has todo's properties in todo's order; k
\* keeps its place when todo has it and comes last when it has not.
Spread(todo, k, v) ==
    [todo EXCEPT ![k] = v,
                 !.order = IF \E i \in 1..Len(@) : @[i] = k THEN @ ELSE Append(@, k)]

IsTodo(x) ==
    /\ x.id.type = "string"
    /\ x.text.type = "string"
    /\ x.completed.type = "boolean"

\* A value of type Todo[].
IsTodoArray(v) ==
    /\ v.type = "array"
    /\ \A i \in 1..Len(v.elems) : IsTodo(v.elems[i])

(***************************************************************************)
(* JSON text, as the value of a storage key.  An object is the sequence of *)
(* its members in the order written.                                       *)
(***************************************************************************)
Member(k, v) == [key |-> k, val |-> v]

JsonArray(objs) == [kind |-> "array", objs |-> objs]
JsonNull == [kind |-> "null", objs |-> <<>>]
JsonNumber == [kind |-> "number", objs |-> <<>>]
\* A string that is no JSON text.
Garbage == [kind |-> "garbage", objs |-> <<>>]
\* The empty string.
EmptyString == [kind |-> "empty", objs |-> <<>>]
\* getItem's null: the key is not set.
Absent == [kind |-> "absent", objs |-> <<>>]
\* A string written as it is, with no JSON encoding: setItem('theme', theme).
Text(s) == [kind |-> "text", objs |-> <<s>>]

\* JSON.stringify of an object: its properties in the order they were
\* created in; a property whose value is undefined is left out.
StringifyItem(x) ==
    LET Defined(k) == x[k].type # "undefined"
        written == SelectSeq(x.order, Defined)
    IN  [i \in 1..Len(written) |-> Member(written[i], x[written[i]])]

\* JSON.stringify(todos)
Stringify(v) ==
    CASE v.type = "array" -> JsonArray([i \in 1..Len(v.elems) |-> StringifyItem(v.elems[i])])
      [] v.type = "null" -> JsonNull
      [] OTHER -> JsonNumber

RECURSIVE Lookup(_, _)
\* The property k of a parsed object: the last member named k, or undefined.
Lookup(members, k) ==
    IF members = <<>> THEN JsUndefined
    ELSE IF members[Len(members)].key = k THEN members[Len(members)].val
    ELSE Lookup(SubSeq(members, 1, Len(members) - 1), k)

RECURSIVE KeyOrder(_)
\* The property names of a parsed object in the order JSON.parse creates them:
\* a name written twice keeps the place of its first member.
KeyOrder(members) ==
    IF members = <<>> THEN <<>>
    ELSE LET before == KeyOrder(SubSeq(members, 1, Len(members) - 1))
             k == members[Len(members)].key
         IN  IF k \notin Keys \/ \E i \in 1..Len(before) : before[i] = k
             THEN before ELSE Append(before, k)

ParseItem(members) ==
    [id |-> Lookup(members, "id"),
     text |-> Lookup(members, "text"),
     completed |-> Lookup(members, "completed"),
     order |-> KeyOrder(members)]

\* JSON.parse throws a SyntaxError on these.
ParseThrows(t) == t.kind \in {"garbage", "empty"}

\* JSON.parse(savedTodos), where it does not throw.
Parse(t) ==
    CASE t.kind = "array" -> JsArray([i \in 1..Len(t.objs) |-> ParseItem(t.objs[i])])
      [] t.kind = "null" -> JsNull
      [] OTHER -> JsNumber

(***************************************************************************)
(* The reducer.                                                            *)
(***************************************************************************)
AddAction(text) == [type |-> "ADD_TODO", payload |-> text]
ToggleAction(id) == [type |-> "TOGGLE_TODO", payload |-> id]
DeleteAction(id) == [type |-> "DELETE_TODO", payload |-> id]
EditAction(id, newText) ==
    [type |-> "EDIT_TODO", payload |-> [id |-> id, newText |-> newText]]
ClearAction == [type |-> "CLEAR_COMPLETED"]
LoadAction(parsed) == [type |-> "LOAD_TODOS", payload |-> parsed]

\* todo.id === id
IdIs(todo, id) == todo.id = JsString(id)

\* ADD_TODO putting the new item first.
ReduceAddFirst(state, text, clock) ==
    JsArray(<<Todo(ToString(clock), text, FALSE)>> \o state.elems)

\* case 'ADD_TODO'; clock is the value Date.now() returns.
ReduceAdd(state, text, clock) ==
    JsArray(Append(state.elems, Todo(ToString(clock), text, FALSE)))

\* case 'TOGGLE_TODO'
ReduceToggle(state, id) ==
    LET Flip(todo) ==
            IF IdIs(todo, id)
            THEN Spread(todo, "completed", JsBoolean(~Truthy(todo.completed)))
            ELSE todo
    IN  JsArray([i \in 1..Len(state.elems) |-> Flip(state.elems[i])])

\* case 'DELETE_TODO'
ReduceDelete(state, id) ==
    LET Keep(todo) == ~IdIs(todo, id)
    IN  JsArray(SelectSeq(state.elems, Keep))

\* case 'EDIT_TODO'
ReduceEdit(state, id, newText) ==
    LET Set(todo) ==
            IF IdIs(todo, id) THEN Spread(todo, "text", JsString(newText))
            ELSE todo
    IN  JsArray([i \in 1..Len(state.elems) |-> Set(state.elems[i])])

\* case 'CLEAR_COMPLETED'
ReduceClear(state) ==
    LET Keep(todo) == ~Truthy(todo.completed)
    IN  JsArray(SelectSeq(state.elems, Keep))

\* case 'LOAD_TODOS'
ReduceLoad(state, parsed) == parsed

todoReducer(state, action, clock) ==
    CASE action.type = "ADD_TODO" -> ReduceAdd(state, action.payload, clock)
      [] action.type = "TOGGLE_TODO" -> ReduceToggle(state, action.payload)
      [] action.type = "DELETE_TODO" -> ReduceDelete(state, action.payload)
      [] action.type = "EDIT_TODO" ->
            ReduceEdit(state, action.payload.id, action.payload.newText)
      [] action.type = "CLEAR_COMPLETED" -> ReduceClear(state)
      [] action.type = "LOAD_TODOS" -> ReduceLoad(state, action.payload)
      [] OTHER -> state

RECURSIVE ReduceAll(_, _, _)
\* React applies the queued actions in the order they were dispatched.
ReduceAll(state, actions, clock) ==
    IF actions = <<>> THEN state
    ELSE ReduceAll(todoReducer(state, Head(actions), clock), Tail(actions), clock)

(***************************************************************************)
(* State.                                                                  *)
(***************************************************************************)
VARIABLES
    todos,      \* the reducer's state, `todos` of TodoProvider
    queue,      \* actions dispatched by effects, not yet reduced
    storage,    \* localStorage: the value of each key
    medium,     \* "ok"; "blocked": every access to localStorage throws;
                \* "full": setItem throws (the quota is exceeded)
    pc,         \* where the mounted application stands
    now,        \* the tick Date.now() returned last
    lastOp,     \* the last call of an action function: which one, whether
                \* the text passed was blank, whether it dispatched
    snapshot,   \* the value of 'todos' when the session started, while no
                \* action function has been called
    io,         \* the calls of getItem('todos') ("read") and of
                \* setItem('todos', ...) ("write") in the order made, while no
                \* action function has been called
    theme,      \* the state of ThemeProvider
    dataTheme,  \* the data-theme attribute of document.documentElement
    themePc,    \* where ThemeProvider stands: its save effect is due, or idle
    filter,     \* the state of FilterProvider
    session,    \* the page load under way: its number, the value of 'theme'
                \* it found, the theme it started with, its toggles so far,
                \* and the theme and the filter the session before ended
                \* with and whether it was toggled
    lastHook    \* the last call of a context accessor and what it gave

vars ==
    <<todos, queue, storage, medium, pc, now, lastOp, snapshot, io,
      theme, dataTheme, themePc, filter, session, lastHook>>

\* The variables of the Theme and Filter Stores and of the accessors.
settingsVars == <<theme, dataTheme, themePc, filter, session, lastHook>>

\* The variables of the Todo Store.
todoVars == <<todos, queue, pc, now, lastOp, snapshot, io>>

\* localStorage.getItem(key) throws when the medium is blocked.
GetItemThrows == medium = "blocked"

\* localStorage.setItem(key, value) throws when the medium is blocked or full.
SetItemThrows == medium \in {"blocked", "full"}

\* localStorage.setItem(key, value): the storage after the call; a medium
\* that throws keeps what it held.
SetItem(st, key, value) ==
    IF SetItemThrows THEN st ELSE [st EXCEPT ![key] = value]

(***************************************************************************)
(* What the medium may hold when a session starts.                         *)
(***************************************************************************)
StoredItems ==
    { Todo(ToString(1), <<"a">>, FALSE), Todo(ToString(2), <<"b">>, TRUE) }

\* An item with no text, and one with no completed.
NoText ==
    [id |-> JsString(ToString(1)), text |-> JsUndefined,
     completed |-> JsBoolean(FALSE), order |-> <<"id", "completed">>]
NoCompleted ==
    [id |-> JsString(ToString(2)), text |-> JsString(<<"a">>),
     completed |-> JsUndefined, order |-> <<"id", "text">>]

\* An item another writer saved with its members in another order.
Reordered ==
    [Todo(ToString(1), <<"a">>, FALSE) EXCEPT !.order = <<"completed", "text", "id">>]

StoredArrays ==
    UNION { [1..n -> StoredItems] : n \in 0..MaxStored }
    \cup { <<NoText>>, <<Todo(ToString(1), <<"a">>, TRUE), NoCompleted>>, <<Reordered>> }

StoredTexts ==
    {Absent, EmptyString, Garbage, JsonNull, JsonNumber}
    \cup { Stringify(JsArray(es)) : es \in StoredArrays }

NoOp == [op |-> "none", blank |-> FALSE, dispatched |-> FALSE]

\* A blocked medium is never read: one content stands for all.
BlockedTexts == {Stringify(JsArray(<<Todo(ToString(1), <<"a">>, FALSE)>>))}

\* type ThemeType = 'light' | 'dark'
ThemeTypes == {"light", "dark"}

\* type FilterType = 'all' | 'active' | 'completed'
FilterTypes == {"all", "active", "completed"}

\* What 'theme' may hold when a session starts: nothing, the empty string,
\* a theme, or another string.
StoredThemes ==
    {Absent, EmptyString, Text("light"), Text("dark"), Text("Dark"), Text("blue")}

\* The first page load over a medium: the value of 'theme' it finds and the
\* theme it starts with.
FirstSession(saved, initial) ==
    [n |-> 1, saved |-> saved, initial |-> initial, toggles |-> 0,
     leftTheme |-> "none", leftFilter |-> "none", leftToggled |-> FALSE]

\* No accessor has been called.
NoHook ==
    [hook |-> "none", scope |-> {},
     result |-> [outcome |-> "none", context |-> [defined |-> FALSE, value |-> <<>>]]]

\* The Theme and Filter Stores mounted and left alone: the light theme,
\* saved and applied, and the filter 'all'.
SettingsAtRest ==
    /\ theme = "light"
    /\ dataTheme = "light"
    /\ themePc = "idle"
    /\ filter = "all"
    /\ session = FirstSession(Text("light"), "light")
    /\ lastHook = NoHook

Init ==
    /\ todos = JsArray(<<>>)
    /\ queue = <<>>
    /\ medium \in {"ok", "blocked"}
    /\ \E saved \in (IF medium = "ok" THEN StoredTexts ELSE BlockedTexts) :
            storage = [todos |-> saved, theme |-> Text("light")]
    /\ pc = "load1"
    /\ now = 1
    /\ lastOp = NoOp
    /\ snapshot = storage["todos"]
    /\ io = <<>>
    /\ SettingsAtRest

(***************************************************************************)
(* Initialization: the effects of TodoProvider's first commit.             *)
(***************************************************************************)
\* `if (savedTodos)`: getItem gave a non-empty string.
SavedIsTruthy(t) == t.kind \notin {"absent", "empty"}

\* The load effect with no try/catch around JSON.parse and getItem.
LoadDispatchNoCatch(q, st) ==
    IF ~SavedIsTruthy(st["todos"]) THEN q
    ELSE Append(q, LoadAction(Parse(st["todos"])))

\* What the load effect leaves in the queue: it dispatches LOAD_TODOS with
\* the parsed value unless getItem or JSON.parse threw or nothing was saved.
LoadDispatch(q, st) ==
    IF GetItemThrows \/ ~SavedIsTruthy(st["todos"]) \/ ParseThrows(st["todos"])
    THEN q
    ELSE Append(q, LoadAction(Parse(st["todos"])))

\* The save effect: the storage it leaves.
SaveWrite(st, state) == SetItem(st, "todos", Stringify(state))

\* The save effect with no try/catch: what setItem throws leaves the effect.
SaveOutcomeNoCatch == IF SetItemThrows THEN "thrown" ELSE "saved"

\* How the save effect ends: the catch clause takes what setItem throws and
\* logs it with console.error.
SaveOutcome == IF SetItemThrows THEN "logged" ELSE "saved"

\* Where the application stands after a save effect: an error that leaves
\* an effect, with no error boundary, unmounts the application.
AfterSave(next) == IF SaveOutcome = "thrown" THEN "crashed" ELSE next

\* After the last effect of a commit: a queued action makes React render again.
AfterEffects(q) == IF q = <<>> THEN "idle" ELSE "render"

\* useEffect(() => { ... getItem ... dispatch LOAD_TODOS ... }, [])
\* The effects of a commit run child first: in each run of the mount effects
\* those of TodoProvider come before the one of ThemeProvider, so the second
\* run starts when ThemeProvider's first has ended.
LoadEffect ==
    /\ pc \in {"load1", "load2"}
    /\ pc = "load2" => themePc # "save1"
    /\ queue' = LoadDispatch(queue, storage)
    /\ pc' = IF pc = "load1" THEN "save1" ELSE "save2"
    /\ io' = Append(io, "read")
    /\ UNCHANGED <<todos, storage, medium, now, lastOp, snapshot>>
    /\ UNCHANGED settingsVars

\* useEffect(() => { ... setItem('todos', JSON.stringify(todos)) ... }, [todos])
\* After the first run of the mount effects a development build under
\* StrictMode runs them a second time; a production build does not.
SaveEffect ==
    /\ pc \in {"save1", "save2", "save3"}
    /\ storage' = SaveWrite(storage, todos)
    /\ io' = Append(io, "write")
    /\ \/ /\ pc = "save1"
          /\ pc' = AfterSave("load2")
       \/ /\ pc = "save1"
          /\ pc' = AfterSave(AfterEffects(queue))
       \/ /\ pc = "save2"
          /\ pc' = AfterSave(AfterEffects(queue))
       \/ /\ pc = "save3"
          /\ pc' = AfterSave("idle")
    /\ UNCHANGED <<todos, queue, medium, now, lastOp, snapshot>>
    /\ UNCHANGED settingsVars

\* TodoList calls todos.filter while rendering: a state that is no array
\* throws there, and with no error boundary React unmounts the application.
RenderThrows(state) == state.type # "array"

\* The render that follows the mount effects, those of ThemeProvider
\* included: the queued actions are reduced.
Render ==
    /\ pc = "render"
    /\ themePc = "idle"
    /\ todos' = ReduceAll(todos, queue, now)
    /\ queue' = <<>>
    /\ pc' = IF RenderThrows(todos') THEN "crashed" ELSE "save3"
    /\ UNCHANGED <<storage, medium, now, lastOp, snapshot, io>>
    /\ UNCHANGED settingsVars

(***************************************************************************)
(* The views of TodoList.                                                  *)
(***************************************************************************)
\* filteredTodos with the tests written as comparisons with false and true.
filteredTodosStrict(state, f) ==
    LET Active(todo) == todo.completed = JsBoolean(FALSE)
        Completed(todo) == todo.completed = JsBoolean(TRUE)
    IN  CASE f = "active" -> SelectSeq(state.elems, Active)
          [] f = "completed" -> SelectSeq(state.elems, Completed)
          [] OTHER -> state.elems

\* switch (filter): todos.filter(todo => !todo.completed),
\* todos.filter(todo => todo.completed), or todos itself.
filteredTodos(state, f) ==
    LET Active(todo) == ~Truthy(todo.completed)
        Completed(todo) == Truthy(todo.completed)
    IN  CASE f = "active" -> SelectSeq(state.elems, Active)
          [] f = "completed" -> SelectSeq(state.elems, Completed)
          [] OTHER -> state.elems

\* todos.filter(todo => todo.completed).length
completedCount(state) ==
    LET Completed(todo) == Truthy(todo.completed)
    IN  Len(SelectSeq(state.elems, Completed))

\* todos.filter(todo => !todo.completed).length
activeCount(state) ==
    LET Active(todo) == ~Truthy(todo.completed)
    IN  Len(SelectSeq(state.elems, Active))

(***************************************************************************)
(* The action functions of TodoProvider: the actions each call dispatches. *)
(***************************************************************************)
\* addTodo dispatching the text as passed.
addTodoNoTrim(text) ==
    IF Trim(text) # <<>> THEN <<AddAction(text)>> ELSE <<>>

\* const addTodo = (text) => { if (text.trim()) dispatch(ADD_TODO, text.trim()) }
addTodo(text) ==
    IF Trim(text) # <<>> THEN <<AddAction(Trim(text))>> ELSE <<>>

\* const toggleTodo = (id) => dispatch(TOGGLE_TODO, id)
toggleTodo(id) == <<ToggleAction(id)>>

\* const deleteTodo = (id) => dispatch(DELETE_TODO, id)
deleteTodo(id) == <<DeleteAction(id)>>

\* editTodo with no test of the trimmed text.
editTodoNoGuard(id, newText) == <<EditAction(id, Trim(newText))>>

\* const editTodo = (id, newText) => { if (newText.trim()) dispatch(EDIT_TODO, ...) }
editTodo(id, newText) ==
    IF Trim(newText) # <<>> THEN <<EditAction(id, Trim(newText))>> ELSE <<>>

\* const clearCompleted = () => dispatch(CLEAR_COMPLETED)
clearCompleted == <<ClearAction>>

\* TodoItem: if (editText.trim()) editTodo(todo.id, editText); else the edit
\* is cancelled.
handleEditSave(id, editText) ==
    IF Trim(editText) # <<>> THEN editTodo(id, editText) ELSE <<>>

(***************************************************************************)
(* Events.  What an event handler dispatches is reduced, rendered and      *)
(* followed by the save effect before the next event is handled.           *)
(***************************************************************************)
\* Some item has this id.
Matches(id) == \E i \in 1..Len(todos.elems) : IdIs(todos.elems[i], id)

\* A call of an action function that dispatches `actions`; clock is what
\* Date.now() returns if the reducer asks; blank tells whether the text
\* passed was blank.  The save effect runs when the state was replaced, and
\* the caller goes on unless an error left it.
Call(op, actions, clock, blank) ==
    /\ pc = "idle"
    /\ themePc = "idle"
    /\ lastOp' = [op |-> op, blank |-> blank, dispatched |-> Len(actions) > 0]
    /\ snapshot' = Absent
    /\ io' = <<>>
    /\ UNCHANGED <<queue, medium>>
    /\ UNCHANGED settingsVars
    /\ todos' = ReduceAll(todos, actions, clock)
    /\ storage' = IF Len(actions) > 0 THEN SaveWrite(storage, todos') ELSE storage
    /\ pc' = IF Len(actions) > 0 THEN AfterSave(pc) ELSE pc

\* The texts a caller passes.
InputTexts == { <<>>, <<" ">>, <<" ", "a">>, <<"b", " ">> }

\* The id no item has.
NoSuchId == ToString(0)

\* The texts the edit field of an item holds when it is saved.
FieldTexts == { <<" ">>, <<"b", " ">> }

\* The ids a caller passes: those of the items shown, and one of no item.
IdArgs == { todos.elems[i].id.str : i \in 1..Len(todos.elems) } \cup {NoSuchId}

\* The ticks Date.now() may return next: the clock stood still or went on.
Ticks == { t \in {now, now + 1} : t <= MaxClock }

AddTodo(text, clock) ==
    /\ Len(addTodo(text)) > 0 => Len(todos.elems) < MaxTodos
    /\ Call("add", addTodo(text), clock, IsBlank(text))
    /\ now' = IF Len(addTodo(text)) > 0 THEN clock ELSE now

ToggleTodo(id) ==
    /\ Call("toggle", toggleTodo(id), now, FALSE)
    /\ UNCHANGED now

DeleteTodo(id) ==
    /\ Call("remove", deleteTodo(id), now, FALSE)
    /\ UNCHANGED now

EditTodo(id, newText) ==
    /\ Call("edit", editTodo(id, newText), now, IsBlank(newText))
    /\ UNCHANGED now

\* The edit field of the item `id` loses focus or gets Enter.
HandleEditSave(id, editText) ==
    /\ Matches(id)
    /\ Call("edit", handleEditSave(id, editText), now, IsBlank(editText))
    /\ UNCHANGED now

ClearCompleted ==
    /\ Call("clear", clearCompleted, now, FALSE)
    /\ UNCHANGED now

Next ==
    \/ LoadEffect
    \/ SaveEffect
    \/ Render
    \/ \E text \in InputTexts, clock \in Ticks : AddTodo(text, clock)
    \/ \E id \in IdArgs : ToggleTodo(id)
    \/ \E id \in IdArgs : DeleteTodo(id)
    \/ \E id \in IdArgs, newText \in InputTexts : EditTodo(id, newText)
    \/ \E id \in IdArgs, editText \in FieldTexts : HandleEditSave(id, editText)
    \/ ClearCompleted

Spec == Init /\ [][Next]_vars

\* Sessions that start with nothing saved: no key, or the empty array.
InitFresh ==
    /\ Init
    /\ medium = "ok"
    /\ storage["todos"] \in {Absent, Stringify(JsArray(<<>>))}

SpecFresh == InitFresh /\ [][Next]_vars

\* What 'todos' holds in the sessions over a full medium: one item.
FullTexts == {Stringify(JsArray(<<Todo(ToString(1), <<"a">>, TRUE)>>))}

\* Sessions over a medium that is full: reads succeed and every write throws.
InitFull ==
    /\ todos = JsArray(<<>>)
    /\ queue = <<>>
    /\ medium = "full"
    /\ \E saved \in FullTexts : storage = [todos |-> saved, theme |-> Text("light")]
    /\ pc = "load1"
    /\ now = 1
    /\ lastOp = NoOp
    /\ snapshot = storage["todos"]
    /\ io = <<>>
    /\ SettingsAtRest

SpecFull == InitFull /\ [][Next]_vars

(***************************************************************************)
(* The Theme Store.                                                        *)
(***************************************************************************)
\* The useState initializer returning whatever string is saved.
initialThemeAnySaved(st) ==
    IF GetItemThrows THEN "light"
    ELSE IF st["theme"].kind = "text" THEN st["theme"].objs[1]
    ELSE "light"

\* useState(() => { try { savedTheme = getItem('theme'); if (savedTheme ===
\* 'light' || savedTheme === 'dark') return savedTheme } catch {...}
\* return 'light' })
initialTheme(st) ==
    IF GetItemThrows THEN "light"
    ELSE IF st["theme"] = Text("light") THEN "light"
    ELSE IF st["theme"] = Text("dark") THEN "dark"
    ELSE "light"

\* The save effect of ThemeProvider writing the key of the Todo Store.
ThemeSaveWriteTodosKey(st, t) == SetItem(st, "todos", EmptyString)

\* The save effect of ThemeProvider with no setItem.
ThemeSaveWriteSkipped(st, t) == st

\* localStorage.setItem('theme', theme): the storage the save effect leaves.
ThemeSaveWrite(st, t) == SetItem(st, "theme", Text(t))

\* document.documentElement.setAttribute('data-theme', theme) follows
\* setItem in the same try block: it is reached unless setItem threw.
ThemeAttribute(attr, t) == IF SetItemThrows THEN attr ELSE t

\* An updater that makes the theme dark.
toggleThemeToDark(prevTheme) == "dark"

\* prevTheme => (prevTheme === 'light' ? 'dark' : 'light')
toggleTheme(prevTheme) == IF prevTheme = "light" THEN "dark" ELSE "light"

\* useEffect(() => { try { setItem('theme', theme); setAttribute(...) }
\* catch {...} }, [theme]), after the mount; a development build under
\* StrictMode runs it a second time, a production build does not.  It is
\* the effect of the outermost provider: in each run of the mount effects it
\* follows those of TodoProvider, and it runs a second time where theirs do.
ThemeSaveEffect ==
    /\ themePc \in {"save1", "save2"}
    /\ themePc = "save1" => pc \notin {"load1", "save1"}
    /\ themePc = "save2" => pc \notin {"load2", "save2"}
    /\ storage' = ThemeSaveWrite(storage, theme)
    /\ dataTheme' = ThemeAttribute(dataTheme, theme)
    /\ \/ /\ themePc = "save1"
          /\ pc = "load2"
          /\ themePc' = "save2"
       \/ /\ themePc = "save1"
          /\ pc # "load2"
          /\ themePc' = "idle"
       \/ /\ themePc = "save2"
          /\ themePc' = "idle"
    /\ UNCHANGED <<theme, filter, session, lastHook, medium>>
    /\ UNCHANGED todoVars

\* A click on the theme button: toggleTheme, the render and the save effect.
ToggleTheme ==
    /\ themePc = "idle"
    /\ pc = "idle"
    /\ session.toggles < MaxToggles
    /\ theme' = toggleTheme(theme)
    /\ storage' = ThemeSaveWrite(storage, theme')
    /\ dataTheme' = ThemeAttribute(dataTheme, theme')
    /\ session' = [session EXCEPT !.toggles = @ + 1]
    /\ UNCHANGED <<themePc, filter, lastHook, medium>>
    /\ UNCHANGED todoVars

(***************************************************************************)
(* The Filter Store.                                                       *)
(***************************************************************************)
\* A FilterProvider that starts with 'active'.
initialFilterActive == "active"

\* useState<FilterType>('all')
initialFilter == "all"

\* FilterButtons: onClick={() => setFilter(value)}
SetFilter(value) ==
    /\ themePc = "idle"
    /\ pc = "idle"
    /\ filter' = value
    /\ UNCHANGED <<theme, dataTheme, themePc, session, lastHook, storage, medium>>
    /\ UNCHANGED todoVars

(***************************************************************************)
(* The accessors of the contexts.  A component calls an accessor below the *)
(* providers of its scope.                                                 *)
(***************************************************************************)
Contexts == {"TodoContext", "FilterContext", "ThemeContext"}

Hooks == {"useTodoContext", "useFilterContext", "useThemeContext"}

\* The providers a calling component may stand below: the places in the
\* nesting of AppProviders, from outside all of them to inside all of them.
Scopes ==
    { {}, {"ThemeContext"}, {"ThemeContext", "TodoContext"},
      {"ThemeContext", "TodoContext", "FilterContext"} }

\* createContext<...>(undefined): the value where no provider encloses.
Undefined == [defined |-> FALSE, value |-> <<>>]

\* The value a provider passes, by the state it holds.
Provided(state) == [defined |-> TRUE, value |-> <<state>>]

\* <XContext.Provider value={value}>
ContextValue(ctx) ==
    CASE ctx = "TodoContext" -> Provided(todos)
      [] ctx = "FilterContext" -> Provided(filter)
      [] ctx = "ThemeContext" -> Provided(theme)

\* useContext(XContext) below the providers of scope.
useContext(ctx, scope) == IF ctx \in scope THEN ContextValue(ctx) ELSE Undefined

\* return context
Returned(context) == [outcome |-> "returned", context |-> context]

\* throw new Error('useXContext must be used within a XProvider')
Thrown == [outcome |-> "thrown", context |-> Undefined]

useTodoContext(scope) ==
    LET context == useContext("TodoContext", scope)
    IN  IF context = Undefined THEN Thrown ELSE Returned(context)

\* useFilterContext with no test of the context.
useFilterContextNoTest(scope) == Returned(useContext("FilterContext", scope))

useFilterContext(scope) ==
    LET context == useContext("FilterContext", scope)
    IN  IF context = Undefined THEN Thrown ELSE Returned(context)

useThemeContext(scope) ==
    LET context == useContext("ThemeContext", scope)
    IN  IF context = Undefined THEN Thrown ELSE Returned(context)

\* The context an accessor reads.
ContextOf(hook) ==
    CASE hook = "useTodoContext" -> "TodoContext"
      [] hook = "useFilterContext" -> "FilterContext"
      [] hook = "useThemeContext" -> "ThemeContext"

\* A component below the providers of scope calls an accessor.
UseHook(hook, scope) ==
    /\ lastHook' =
            [hook |-> hook, scope |-> scope,
             result |-> CASE hook = "useTodoContext" -> useTodoContext(scope)
                          [] hook = "useFilterContext" -> useFilterContext(scope)
                          [] hook = "useThemeContext" -> useThemeContext(scope)]
    /\ UNCHANGED <<theme, dataTheme, themePc, filter, session, storage, medium>>
    /\ UNCHANGED todoVars

(***************************************************************************)
(* Sessions of the Theme and Filter Stores.                                *)
(***************************************************************************)
\* A blocked medium is never read: one content stands for all.
BlockedThemes == {Text("dark")}

\* What 'todos' holds when such a session starts: no item, or one.
SettingsTexts ==
    { Stringify(JsArray(<<>>)), Stringify(JsArray(<<Todo(ToString(1), <<"a">>, TRUE)>>)) }

InitSettings ==
    /\ todos = JsArray(<<>>)
    /\ queue = <<>>
    /\ medium \in {"ok", "blocked", "full"}
    /\ \E savedTheme \in (IF medium = "blocked" THEN BlockedThemes ELSE StoredThemes),
          savedTodos \in (IF medium = "blocked" THEN BlockedTexts ELSE SettingsTexts) :
            storage = [todos |-> savedTodos, theme |-> savedTheme]
    /\ pc = "load1"
    /\ now = 1
    /\ lastOp = NoOp
    /\ snapshot = storage["todos"]
    /\ io = <<>>
    /\ theme = initialTheme(storage)
    /\ dataTheme = "none"
    /\ themePc = "save1"
    /\ filter = initialFilter
    /\ session = FirstSession(storage["theme"], theme)
    /\ lastHook = NoHook

\* The page is loaded again: the providers are constructed anew over the
\* medium as the session before left it, and the mount effects of all of
\* them are due.
Reload ==
    /\ session.n < MaxSessions
    /\ theme' = initialTheme(storage)
    /\ dataTheme' = "none"
    /\ themePc' = "save1"
    /\ filter' = initialFilter
    /\ session' =
            [n |-> session.n + 1, saved |-> storage["theme"], initial |-> theme',
             toggles |-> 0, leftTheme |-> theme, leftFilter |-> filter,
             leftToggled |-> session.toggles > 0]
    /\ lastHook' = NoHook
    /\ todos' = JsArray(<<>>)
    /\ queue' = <<>>
    /\ pc' = "load1"
    /\ lastOp' = NoOp
    /\ snapshot' = storage["todos"]
    /\ io' = <<>>
    /\ UNCHANGED <<storage, medium, now>>

NextSettings ==
    \/ LoadEffect
    \/ SaveEffect
    \/ Render
    \/ ThemeSaveEffect
    \/ ToggleTheme
    \/ \E value \in FilterTypes : SetFilter(value)
    \/ \E hook \in Hooks, scope \in Scopes : UseHook(hook, scope)
    \/ Reload

SpecSettings == InitSettings /\ [][NextSettings]_vars

\* React runs the effects of a commit and the render they ask for: the
\* step that is due is taken.
FairSettings ==
    /\ SpecSettings
    /\ WF_vars(LoadEffect)
    /\ WF_vars(SaveEffect)
    /\ WF_vars(Render)
    /\ WF_vars(ThemeSaveEffect)

(***************************************************************************)
(* The application whole: AppProviders mounts the three stores, and the    *)
(* events of all of them come in any order.                                *)
(***************************************************************************)
\* What 'todos' holds when such a session starts: one item.
AppTexts == {Stringify(JsArray(<<Todo(ToString(1), <<"a">>, TRUE)>>))}

\* What 'theme' holds when such a session starts.
AppThemes == {Absent, Text("dark")}

InitApp ==
    /\ todos = JsArray(<<>>)
    /\ queue = <<>>
    /\ medium = "ok"
    /\ \E savedTodos \in AppTexts, savedTheme \in AppThemes :
            storage = [todos |-> savedTodos, theme |-> savedTheme]
    /\ pc = "load1"
    /\ now = 1
    /\ lastOp = NoOp
    /\ snapshot = storage["todos"]
    /\ io = <<>>
    /\ theme = initialTheme(storage)
    /\ dataTheme = "none"
    /\ themePc = "save1"
    /\ filter = initialFilter
    /\ session = FirstSession(storage["theme"], theme)
    /\ lastHook = NoHook

\* A step of the Todo Store that keeps the collection short, or a step of
\* the Theme Store or of the Filter Store.
NextApp ==
    \/ Next /\ Len(todos'.elems) <= MaxAppTodos
    \/ ThemeSaveEffect
    \/ ToggleTheme
    \/ \E value \in FilterTypes : SetFilter(value)

SpecApp == InitApp /\ [][NextApp]_vars

(***************************************************************************)
(* Properties.                                                             *)
(***************************************************************************)
\* The positions of the items of a sequence that have this id.
Hits(items, id) == { i \in 1..Len(items) : items[i].id = JsString(id) }

\* A sequence without its i-th element.
Without(items, i) == SubSeq(items, 1, i - 1) \o SubSeq(items, i + 1, Len(items))

\* Initialization has ended (or failed) and no action function was called.
Initialized == pc \in {"idle", "crashed"} /\ lastOp = NoOp

\* The well-formed collections among those the medium may hold.
WellFormed == { v \in { JsArray(es) : es \in StoredArrays } : IsTodoArray(v) }

\* C1: in a session that starts with an empty collection, whatever ticks the
\* adds observe, the ids of the items are pairwise distinct.
C1_UniqueIds ==
    \A i, j \in 1..Len(todos.elems) :
        i # j => todos.elems[i].id # todos.elems[j].id

\* C2: when 'todos' holds the serialization of a well-formed collection C at
\* initialization, then once initialization has ended the collection is C
\* and 'todos' holds the serialization of C again.
C2_RoundTrip ==
    \A C \in WellFormed :
        (Initialized /\ medium = "ok" /\ snapshot = Stringify(C))
            => (todos = C /\ storage["todos"] = Stringify(C))

\* C3: when the key is missing, the read throws or the string is no JSON
\* text, the collection is empty in every state of initialization, its last
\* included, and initialization does not fail.
C3_FallbackEmpty ==
    (lastOp = NoOp
     /\ (medium = "blocked" \/ snapshot.kind \in {"absent", "garbage", "empty"}))
        => (todos = JsArray(<<>>) /\ pc # "crashed")

C3_Witness ==
    Initialized /\ pc = "idle" /\ medium = "ok" /\ snapshot = Garbage

\* C4: when 'todos' holds JSON that is no array of well-typed items, the
\* collection after initialization is empty; and in every state the
\* collection is an array of well-typed items.
C4_TypeInvalidFallsBack ==
    /\ (Initialized /\ medium = "ok" /\ SavedIsTruthy(snapshot)
        /\ ~ParseThrows(snapshot) /\ ~IsTodoArray(Parse(snapshot)))
            => todos = JsArray(<<>>)
    /\ IsTodoArray(todos)

\* C5: a call of add or edit (through editTodo or through the edit field,
\* with any id) whose text is empty or white space only dispatches nothing
\* and leaves the collection and what is saved as they were.
C5_BlankIsNoOp ==
    [][(pc = "idle" /\ lastOp'.op \in {"add", "edit"} /\ lastOp'.blank)
        => (todos' = todos /\ storage' = storage /\ ~lastOp'.dispatched)]_vars

\* A blank edit has been made on a collection of several items.
C5_Witness ==
    /\ lastOp = [op |-> "edit", blank |-> TRUE, dispatched |-> FALSE]
    /\ Len(todos.elems) > 1

\* C6: add with a non-blank text appends one item: the old items stay as a
\* prefix, the new item has the trimmed text, is not completed, and has an
\* id no old item has.
C6_AddAppendsFresh ==
    [][\A t \in InputTexts, c \in Ticks :
        (~IsBlank(t) /\ AddTodo(t, c))
            => LET old == todos.elems
                   new == todos'.elems
               IN  /\ Len(new) = Len(old) + 1
                   /\ SubSeq(new, 1, Len(old)) = old
                   /\ new[Len(new)].text = JsString(Trim(t))
                   /\ new[Len(new)].completed = JsBoolean(FALSE)
                   /\ \A i \in 1..Len(old) : old[i].id # new[Len(new)].id]_vars

\* C7: toggle flips completed of exactly one item, the one with the id, and
\* changes nothing else; with an id of no item it changes nothing.
C7_ToggleExactlyOne ==
    [][\A id \in IdArgs :
        ToggleTodo(id)
            => LET old == todos.elems
                   new == todos'.elems
               IN  IF Hits(old, id) = {} THEN new = old
                   ELSE \E i \in Hits(old, id) :
                            new = [old EXCEPT ![i].completed =
                                       JsBoolean(~Truthy(old[i].completed))]]_vars

\* C8: for every reachable collection and every id, toggle applied twice
\* gives the collection back.
C8_ToggleTwice ==
    pc = "idle"
        => \A id \in IdArgs :
               ReduceAll(todos, toggleTodo(id) \o toggleTodo(id), now) = todos

\* C9: remove deletes exactly one item, the one with the id, and keeps the
\* others in order; with an id of no item it changes nothing.
C9_RemoveExactlyOne ==
    [][\A id \in IdArgs :
        DeleteTodo(id)
            => LET old == todos.elems
                   new == todos'.elems
               IN  IF Hits(old, id) = {} THEN new = old
                   ELSE \E i \in Hits(old, id) : new = Without(old, i)]_vars

\* C10: edit with a non-blank text sets the text of exactly one item, the one
\* with the id, to the trimmed text and changes nothing else; with an id of
\* no item it changes nothing.
C10_EditExactlyOne ==
    [][\A id \in IdArgs, t \in InputTexts :
        (~IsBlank(t) /\ EditTodo(id, t))
            => LET old == todos.elems
                   new == todos'.elems
               IN  IF Hits(old, id) = {} THEN new = old
                   ELSE \E i \in Hits(old, id) :
                            new = [old EXCEPT ![i].text = JsString(Trim(t))]]_vars

\* How often a value occurs in a sequence.
Count(items, x) == Cardinality({ i \in 1..Len(items) : items[i] = x })

\* The items of a sequence whose completed is the boolean b, in order.
WithCompleted(items, b) ==
    LET Is(todo) == todo.completed = JsBoolean(b)
    IN  SelectSeq(items, Is)

\* C11: clearCompleted leaves exactly the items whose completed is false, in
\* their order and as they were: every item left has completed = false, the
\* count of completed items is 0 afterwards and the count of active items is
\* what it was.
C11_ClearKeepsActive ==
    [][(pc = "idle" /\ lastOp'.op = "clear")
        => /\ todos'.elems = WithCompleted(todos.elems, FALSE)
           /\ \A i \in 1..Len(todos'.elems) :
                todos'.elems[i].completed = JsBoolean(FALSE)
           /\ completedCount(todos') = 0
           /\ activeCount(todos') = activeCount(todos)]_vars

\* C12: for every collection reached, each item is in exactly one of the
\* active view and the completed view, as often as it is in the collection;
\* the lengths of the two views add up to activeCount + completedCount and
\* to the length of the collection; the view of all has that length.
C12_Partition ==
    todos.type = "array"
        => LET active == filteredTodos(todos, "active")
               completed == filteredTodos(todos, "completed")
               all == filteredTodos(todos, "all")
           IN  /\ \A i \in 1..Len(todos.elems) :
                    LET x == todos.elems[i]
                    IN  /\ Count(active, x) + Count(completed, x)
                            = Count(todos.elems, x)
                        /\ Count(active, x) = 0 \/ Count(completed, x) = 0
               /\ Len(active) + Len(completed)
                    = activeCount(todos) + completedCount(todos)
               /\ activeCount(todos) + completedCount(todos) = Len(todos.elems)
               /\ Len(all) = Len(todos.elems)

\* A toggle has left a collection, one item of which was loaded with no
\* completed, with items in both views.
C12_Witness ==
    /\ lastOp.op = "toggle"
    /\ \E i \in 1..Len(todos.elems) : todos.elems[i].completed = JsUndefined
    /\ Len(filteredTodos(todos, "active")) > 0
    /\ Len(filteredTodos(todos, "completed")) > 0

\* C13: for every collection reached and every selector, the visible list is
\* the subsequence of the collection, in order, of the items with
\* completed = false (active), with completed = true (completed), or the
\* whole collection (all).
C13_VisibleList ==
    todos.type = "array"
        => /\ filteredTodos(todos, "active") = WithCompleted(todos.elems, FALSE)
           /\ filteredTodos(todos, "completed") = WithCompleted(todos.elems, TRUE)
           /\ filteredTodos(todos, "all") = todos.elems

\* C14: on a medium whose writes succeed, whenever no effect and no render
\* is pending, after load as after any action function, 'todos' holds the
\* serialization of the collection in memory.
C14_PersistenceFollows ==
    (medium = "ok" /\ pc \in {"idle", "crashed"})
        => storage["todos"] = Stringify(todos)

\* C15: when the write of a save effect fails, no error leaves the effect:
\* the application is never unmounted; and each call of an action function
\* leaves the application idle, the collection being the one the reducer
\* gave for the action dispatched and what is saved staying as it was.
C15_BestEffort ==
    [][SetItemThrows
        => /\ pc' # "crashed"
           /\ storage' = storage
           /\ pc = "idle" => pc' = "idle"
           /\ (pc = "idle" /\ lastOp'.op = "add")
                => \A t \in InputTexts, c \in Ticks :
                    (~IsBlank(t) /\ AddTodo(t, c))
                        => todos' = ReduceAdd(todos, Trim(t), c)
           /\ (pc = "idle" /\ lastOp'.op = "toggle")
                => \A id \in IdArgs :
                    ToggleTodo(id) => todos' = ReduceToggle(todos, id)
           /\ (pc = "idle" /\ lastOp'.op = "remove")
                => \A id \in IdArgs :
                    DeleteTodo(id) => todos' = ReduceDelete(todos, id)
           /\ (pc = "idle" /\ lastOp'.op = "edit")
                => \A id \in IdArgs, t \in InputTexts :
                    (~IsBlank(t) /\ EditTodo(id, t))
                        => todos' = ReduceEdit(todos, id, Trim(t))
           /\ (pc = "idle" /\ lastOp'.op = "clear")
                => todos' = ReduceClear(todos)]_vars

\* Over a full medium that holds one item, calls that dispatched have left
\* a collection of several items, and what is saved is still the one item.
C15_Witness ==
    /\ medium = "full"
    /\ pc = "idle"
    /\ lastOp.dispatched
    /\ Len(todos.elems) > 1
    /\ storage["todos"] = Stringify(JsArray(<<Todo(ToString(1), <<"a">>, TRUE)>>))
    /\ storage["todos"] # Stringify(todos)

\* The theme that is not this one.
OtherTheme(t) == CHOOSE u \in ThemeTypes : u # t

\* C16: the theme is light or dark in every state, and after n toggles in a
\* session that started with the theme t it is t when n is even and the
\* other theme when n is odd.
C16_ToggleParity ==
    /\ theme \in ThemeTypes
    /\ session.initial \in ThemeTypes
    /\ theme = IF session.toggles % 2 = 0 THEN session.initial
               ELSE OtherTheme(session.initial)

\* A session that started dark has been toggled three times.
C16_Witness ==
    /\ session.initial = "dark"
    /\ session.toggles = 3
    /\ theme = "light"

\* C17: until the first toggle of a session the theme is the value 'theme'
\* held when the session started if the read succeeded and gave exactly
\* "light" or "dark", and light in every other case.
C17_ThemeRestored ==
    session.toggles = 0
        => theme = IF GetItemThrows THEN "light"
                   ELSE IF session.saved \in {Text("light"), Text("dark")}
                        THEN session.saved.objs[1]
                   ELSE "light"

\* A session that found another string under 'theme' has started light and
\* run its save effect.
C17_Witness ==
    /\ session.saved = Text("Dark")
    /\ session.toggles = 0
    /\ themePc = "idle"
    /\ theme = "light"

\* C18: on a medium whose writes succeed, 'theme' holds the current theme
\* whenever no save effect is due, it comes to hold it from every state, and
\* a session that follows another starts with the theme the other ended with.
C18_ThemePersisted ==
    /\ []((medium = "ok" /\ themePc = "idle") => storage["theme"] = Text(theme))
    /\ []((medium = "ok" /\ session.n > 1 /\ session.toggles = 0)
            => theme = session.leftTheme)
    /\ [](medium = "ok" => <>(storage["theme"] = Text(theme)))

\* The session after one that was toggled and ended dark starts dark.
C18_Witness ==
    /\ medium = "ok"
    /\ session.n = 2
    /\ session.leftToggled
    /\ session.leftTheme = "dark"
    /\ session.toggles = 0
    /\ theme = "dark"

\* C19: the filter is 'all' when a session starts, whatever the session
\* before had selected; setFilter(s) makes the filter s; the filter is always
\* one of all, active, completed; and neither the start of the Filter Store
\* nor setFilter changes what the medium holds.
C19_FilterTransient ==
    /\ filter = "all"
    /\ [](filter \in FilterTypes)
    /\ [][session'.n # session.n => (filter' = "all" /\ storage' = storage)]_vars
    /\ [][\A s \in FilterTypes :
            SetFilter(s) => (filter' = s /\ storage' = storage)]_vars

\* The session after one that ended with 'completed' has selected 'active'.
C19_Witness ==
    /\ session.n = 2
    /\ session.leftFilter = "completed"
    /\ filter = "active"

\* C20: an accessor called below no provider of its context throws; called
\* below its provider it returns the value the provider passes.
C20_AccessorsGuarded ==
    [][(lastHook' # lastHook /\ lastHook'.hook \in Hooks)
            => /\ UseHook(lastHook'.hook, lastHook'.scope)
               /\ lastHook'.result =
                    IF ContextOf(lastHook'.hook) \in lastHook'.scope
                    THEN Returned(Provided(
                            CASE lastHook'.hook = "useTodoContext" -> todos
                              [] lastHook'.hook = "useFilterContext" -> filter
                              [] lastHook'.hook = "useThemeContext" -> theme))
                    ELSE Thrown]_vars

\* useFilterContext has thrown below ThemeProvider and TodoProvider, outside
\* FilterProvider.
C20_Witness ==
    /\ lastHook.hook = "useFilterContext"
    /\ lastHook.scope = {"ThemeContext", "TodoContext"}
    /\ lastHook.result.outcome = "thrown"

\* The ids, and the texts, of the items of a sequence, in order.
Ids(items) == [i \in 1..Len(items) |-> items[i].id]

Texts(items) == [i \in 1..Len(items) |-> items[i].text]

RECURSIVE IsSubsequence(_, _)
\* a is b with some elements left out.
IsSubsequence(a, b) ==
    IF a = <<>> THEN TRUE
    ELSE IF b = <<>> THEN FALSE
    ELSE IF Head(a) = Head(b) THEN IsSubsequence(Tail(a), Tail(b))
    ELSE IsSubsequence(a, Tail(b))

\* C21: in every call of an action function the items keep their ids and
\* their order: toggle and edit leave the ids as they are, place by place;
\* add leaves the old items first, in order, and puts one item after them;
\* remove and clearCompleted leave some of the old items, as they were and
\* in their order, and add none.
C21_OrderAndIdsStable ==
    [][pc = "idle"
        => LET old == todos.elems
               new == todos'.elems
           IN  /\ lastOp'.op \in {"toggle", "edit"} => Ids(new) = Ids(old)
               /\ lastOp'.op = "add"
                    => IF lastOp'.dispatched
                       THEN /\ Len(new) = Len(old) + 1
                            /\ SubSeq(new, 1, Len(old)) = old
                       ELSE new = old
               /\ lastOp'.op \in {"remove", "clear"}
                    => IsSubsequence(new, old)]_vars

\* clearCompleted has left several items.
C21_Witness ==
    /\ lastOp.op = "clear"
    /\ Len(todos.elems) > 1
    /\ \A i \in 1..Len(todos.elems) : ~Truthy(todos.elems[i].completed)

\* C22: in a session that starts with an empty collection every text is a
\* string that is not empty and neither starts nor ends with white space,
\* and a text changes only in an edit whose id is the id of its item.
C22_TextsTrimmed ==
    /\ [](\A i \in 1..Len(todos.elems) :
            LET text == todos.elems[i].text
            IN  /\ text.type = "string"
                /\ text.str # <<>>
                /\ Head(text.str) # " "
                /\ text.str[Len(text.str)] # " ")
    /\ [][pc = "idle"
            => LET old == todos.elems
                   new == todos'.elems
               IN  /\ lastOp'.op = "toggle" => Texts(new) = Texts(old)
                   /\ lastOp'.op = "add"
                        => SubSeq(Texts(new), 1, Len(old)) = Texts(old)
                   /\ lastOp'.op \in {"remove", "clear"}
                        => IsSubsequence(new, old)
                   /\ lastOp'.op = "edit"
                        => /\ Len(new) = Len(old)
                           /\ \A i \in 1..Len(old) :
                                new[i].text # old[i].text
                                    => \E t \in InputTexts \cup FieldTexts :
                                        \/ EditTodo(old[i].id.str, t)
                                        \/ HandleEditSave(old[i].id.str, t)]_vars

\* An edit has given one of two items the text b and left the other its a.
C22_Witness ==
    /\ lastOp = [op |-> "edit", blank |-> FALSE, dispatched |-> TRUE]
    /\ \E i, j \in 1..Len(todos.elems) :
            /\ todos.elems[i].id # todos.elems[j].id
            /\ todos.elems[i].text = JsString(<<"b">>)
            /\ todos.elems[j].text = JsString(<<"a">>)

\* How often an event occurs in a log.
Occurrences(log, e) == Cardinality({ i \in 1..Len(log) : log[i] = e })

\* C24: for every collection reached and every action, ADD_TODO included,
\* the reducer gives the same collection whatever Date.now() returns.
C24_ReducerDeterministic ==
    pc = "idle"
        => \A action \in { AddAction(<<"a">>), ToggleAction(NoSuchId),
                            DeleteAction(NoSuchId), ClearAction,
                            EditAction(NoSuchId, <<"a">>),
                            LoadAction(JsArray(<<>>)) } :
               \A c1, c2 \in 1..MaxClock :
                   todoReducer(todos, action, c1) = todoReducer(todos, action, c2)

\* C25: while the application is initialized, 'todos' is read once at most,
\* no write of 'todos' comes before a read of it, and when initialization
\* has ended it has been read exactly once.
C25_ReadOnceBeforeWrite ==
    lastOp = NoOp
        => /\ Occurrences(io, "read") <= 1
           /\ \A i, j \in 1..Len(io) :
                (io[i] = "write" /\ io[j] = "read") => j < i
           /\ pc \in {"idle", "crashed"} => Occurrences(io, "read") = 1

\* C27: when 'todos' holds the serialization of a well-formed collection C
\* that is not empty as the session starts, it holds the serialization of C
\* in every state until an action function is called.
C27_NoTransientLoss ==
    \A C \in WellFormed :
        (lastOp = NoOp /\ medium = "ok" /\ Len(C.elems) > 0
         /\ snapshot = Stringify(C))
            => storage["todos"] = Stringify(C)

\* C23: a step that changes the theme, the filter or the standing of the
\* Theme Store leaves the variables of the Todo Store and 'todos' as they
\* were; a step that changes a variable of the Todo Store or 'todos' leaves
\* the theme, the filter, the data-theme attribute and 'theme' as they were;
\* a step that changes the filter leaves every key as it was.
C23_StoresIndependent ==
    [][/\ (theme' # theme \/ themePc' # themePc \/ filter' # filter)
            => (todoVars' = todoVars /\ storage'["todos"] = storage["todos"])
       /\ (todoVars' # todoVars \/ storage'["todos"] # storage["todos"])
            => /\ theme' = theme
               /\ filter' = filter
               /\ dataTheme' = dataTheme
               /\ themePc' = themePc
               /\ storage'["theme"] = storage["theme"]
       /\ filter' # filter => storage' = storage]_vars

\* The theme has been toggled to dark and saved, the filter set, and the
\* collection changed by a call and saved, in one session.
C23_Witness ==
    /\ session.saved = Absent
    /\ session.toggles = 1
    /\ storage["theme"] = Text("dark")
    /\ filter = "completed"
    /\ lastOp.op = "toggle"
    /\ storage["todos"] = Stringify(JsArray(<<Todo(ToString(1), <<"a">>, FALSE)>>))

\* C26: whenever no save effect of the Theme Store is due, after
\* initialization as after a toggle, the data-theme attribute of the document
\* root is the current theme, on a medium whose writes fail as on any other.
C26_AttributeFollowsTheme ==
    themePc = "idle" => dataTheme = theme

====
